---- MODULE Spec2Model ----
(***************************************************************************)
(* Model of telegram_whitelist_bot.py: the Solana address validator, the   *)
(* sqlite "whitelist" table with its upsert, the CSV export, and the       *)
(* handlers as python-telegram-bot dispatches them (one update at a time,  *)
(* first matching handler of the group, ConversationHandler keyed by chat  *)
(* and user).                                                              *)
(*                                                                         *)
(* Python values: a str is a sequence of one-character strings, except the *)
(* user names, which no code inspects and which stay atomic; an optional   *)
(* value is <<>> for None and <<v>> for the value v.                       *)
(***************************************************************************)
EXTENDS Integers, Sequences, FiniteSets, TLC

(***************************************************************************)
(* Bounds of the model.                                                    *)
(***************************************************************************)
\* The wall clock takes the instants StartClock .. StartClock + MaxTicks.
MaxTicks == 1
\* The validator's inputs have a body of up to MaxBody = 44 + ExtraLen characters.
ExtraLen == 2
\* ... and up to MaxPad whitespace characters on each side.
MaxPad == 1

(***************************************************************************)
(* Strings.                                                                *)
(***************************************************************************)
Rep(c, n) == [i \in 1..n |-> c]

Whitespace == {" ", "\t", "\n"}

RECURSIVE lstrip(_)
lstrip(s) == IF s # <<>> /\ Head(s) \in Whitespace THEN lstrip(Tail(s)) ELSE s

RECURSIVE rstrip(_)
rstrip(s) ==
    IF s # <<>> /\ s[Len(s)] \in Whitespace THEN rstrip(SubSeq(s, 1, Len(s) - 1)) ELSE s

\* str.strip()
strip(s) == rstrip(lstrip(s))

UpperCase ==
    << "A", "B", "C", "D", "E", "F", "G", "H", "I", "J", "K", "L", "M",
       "N", "O", "P", "Q", "R", "S", "T", "U", "V", "W", "X", "Y", "Z" >>

LowerCase ==
    << "a", "b", "c", "d", "e", "f", "g", "h", "i", "j", "k", "l", "m",
       "n", "o", "p", "q", "r", "s", "t", "u", "v", "w", "x", "y", "z" >>

\* The lower-case letter of each upper-case letter.
LowerOf ==
    [c \in {UpperCase[i] : i \in 1..26} |-> LowerCase[CHOOSE i \in 1..26 : UpperCase[i] = c]]

LowerChar(c) == IF c \in DOMAIN LowerOf THEN LowerOf[c] ELSE c

\* str.lower()
lower(s) == [i \in 1..Len(s) |-> LowerChar(s[i])]

(***************************************************************************)
(* Solana validation.                                                      *)
(***************************************************************************)
MinAddrLen == 32
MaxAddrLen == 44

Range(seq, a, b) == {seq[i] : i \in
    (CHOOSE k \in 1..26 : seq[k] = a)..(CHOOSE k \in 1..26 : seq[k] = b)}

\* The character class [1-9A-HJ-NP-Za-km-z].
Base58 ==
    {"1", "2", "3", "4", "5", "6", "7", "8", "9"}
    \cup Range(UpperCase, "A", "H") \cup Range(UpperCase, "J", "N")
    \cup Range(UpperCase, "P", "Z")
    \cup Range(LowerCase, "a", "k") \cup Range(LowerCase, "m", "z")

\* Faulty variant: the upper length bound taken as exclusive.
SOLANA_RE_exclusive_max(s) ==
    /\ Len(s) >= MinAddrLen
    /\ Len(s) < MaxAddrLen
    /\ \A i \in 1..Len(s) : s[i] \in Base58

\* SOLANA_RE.fullmatch(s): the whole of s is MinAddrLen..MaxAddrLen characters
\* of the class.
SOLANA_RE(s) ==
    /\ Len(s) >= MinAddrLen
    /\ Len(s) <= MaxAddrLen
    /\ \A i \in 1..Len(s) : s[i] \in Base58

is_valid_wallet(addr) == SOLANA_RE(strip(addr))

(***************************************************************************)
(* Time: datetime.utcnow().isoformat().  The clock counts the microseconds *)
(* since 2024-01-01T00:00:00.                                              *)
(***************************************************************************)
StartClock == 9999999
MicrosPerSecond == 1000000

Digits == << "0", "1", "2", "3", "4", "5", "6", "7", "8", "9" >>

RECURSIVE ZeroPad(_, _)
\* n in decimal, zero-padded to width w
ZeroPad(n, w) == IF w = 0 THEN <<>> ELSE Append(ZeroPad(n \div 10, w - 1), Digits[(n % 10) + 1])

RECURSIVE str_int(_)
\* str(n) of a non-negative int
str_int(n) == IF n < 10 THEN <<Digits[n + 1]>> ELSE Append(str_int(n \div 10), Digits[(n % 10) + 1])

DatePrefix == << "2", "0", "2", "4", "-", "0", "1", "-", "0", "1", "T" >>

\* Faulty variant: hours, minutes and seconds written without zero padding.
isoformat_unpadded(t) ==
    LET us == t % MicrosPerSecond
        secs == t \div MicrosPerSecond
        ss == secs % 60
        mm == (secs \div 60) % 60
        hh == (secs \div 3600) % 24
    IN  DatePrefix \o str_int(hh) \o <<":">> \o str_int(mm) \o <<":">> \o str_int(ss)
            \o (IF us = 0 THEN <<>> ELSE <<".">> \o ZeroPad(us, 6))

\* datetime.isoformat(): YYYY-MM-DDTHH:MM:SS.ffffff, and without the fraction
\* when the microsecond is 0.
isoformat(t) ==
    LET us == t % MicrosPerSecond
        secs == t \div MicrosPerSecond
        ss == secs % 60
        mm == (secs \div 60) % 60
        hh == (secs \div 3600) % 24
    IN  DatePrefix \o ZeroPad(hh, 2) \o <<":">> \o ZeroPad(mm, 2) \o <<":">> \o ZeroPad(ss, 2)
            \o (IF us = 0 THEN <<>> ELSE <<".">> \o ZeroPad(us, 6))

\* The characters of code 32..95 and of code 97..126, in order.
AsciiLow ==
    << " ", "!", "\"", "#", "$", "%", "&", "'", "(", ")", "*", "+", ",", "-", ".", "/",
       "0", "1", "2", "3", "4", "5", "6", "7", "8", "9", ":", ";", "<", "=", ">", "?",
       "@", "A", "B", "C", "D", "E", "F", "G", "H", "I", "J", "K", "L", "M", "N", "O",
       "P", "Q", "R", "S", "T", "U", "V", "W", "X", "Y", "Z", "[", "\\", "]", "^", "_" >>

AsciiHigh ==
    << "a", "b", "c", "d", "e", "f", "g", "h", "i", "j", "k", "l", "m", "n", "o",
       "p", "q", "r", "s", "t", "u", "v", "w", "x", "y", "z", "{", "|", "}", "~" >>

\* ord(c)
CharCode(c) ==
    IF c = "\t" THEN 9
    ELSE IF c = "\n" THEN 10
    ELSE IF \E i \in 1..Len(AsciiLow) : AsciiLow[i] = c
         THEN 31 + (CHOOSE i \in 1..Len(AsciiLow) : AsciiLow[i] = c)
         ELSE 96 + (CHOOSE i \in 1..Len(AsciiHigh) : AsciiHigh[i] = c)

RECURSIVE TextLess(_, _)
\* a < b as sqlite compares TEXT (BINARY collation: bytewise, a proper prefix first)
TextLess(a, b) ==
    IF b = <<>> THEN FALSE
    ELSE IF a = <<>> THEN TRUE
    ELSE IF Head(a) # Head(b) THEN CharCode(Head(a)) < CharCode(Head(b))
    ELSE TextLess(Tail(a), Tail(b))

(***************************************************************************)
(* Database: the table whitelist, a set of rows.                           *)
(***************************************************************************)
\* CREATE TABLE IF NOT EXISTS whitelist (...): a fresh database has no row.
init_db == {}

Row(tg_id, username, display_name, wallet, updated_at) ==
    [tg_id |-> tg_id, username |-> username, display_name |-> display_name,
     wallet |-> wallet, updated_at |-> updated_at]

\* Faulty variant: a plain INSERT into a table without the primary key.
set_wallet_insert_only(table, tg_id, username, display_name, wallet, now) ==
    table \cup {Row(tg_id, username, display_name, wallet, isoformat(now))}

\* Faulty variant: INSERT OR IGNORE, which keeps the row already there.
set_wallet_ignore_conflict(table, tg_id, username, display_name, wallet, now) ==
    IF \E r \in table : r.tg_id = tg_id
    THEN table
    ELSE table \cup {Row(tg_id, username, display_name, wallet, isoformat(now))}

\* Faulty variant: the UPDATE of the conflict clause reaching every row.
set_wallet_updates_all(table, tg_id, username, display_name, wallet, now) ==
    IF \E r \in table : r.tg_id = tg_id
    THEN { [r EXCEPT !.wallet = wallet, !.updated_at = isoformat(now)] : r \in table }
    ELSE table \cup {Row(tg_id, username, display_name, wallet, isoformat(now))}

\* Faulty variant: DO UPDATE SET wallet, updated_at only; the names stay.
set_wallet_keeps_names(table, tg_id, username, display_name, wallet, now) ==
    IF \E r \in table : r.tg_id = tg_id
    THEN { IF r.tg_id = tg_id
           THEN [r EXCEPT !.wallet = wallet, !.updated_at = isoformat(now)]
           ELSE r : r \in table }
    ELSE table \cup {Row(tg_id, username, display_name, wallet, isoformat(now))}

\* INSERT ... ON CONFLICT(tg_id) DO UPDATE SET wallet, username, display_name,
\* updated_at = excluded.*, with now read from the clock.
set_wallet(table, tg_id, username, display_name, wallet, now) ==
    IF \E r \in table : r.tg_id = tg_id
    THEN { IF r.tg_id = tg_id
           THEN [r EXCEPT !.wallet = wallet, !.username = username,
                          !.display_name = display_name, !.updated_at = isoformat(now)]
           ELSE r : r \in table }
    ELSE table \cup {Row(tg_id, username, display_name, wallet, isoformat(now))}

\* Faulty variant: the SELECT without its WHERE clause.
get_wallet_any_row(table, tg_id) ==
    IF table # {}
    THEN LET row == CHOOSE r \in table : TRUE
         IN  [wallet |-> <<row.wallet>>, when |-> <<row.updated_at>>]
    ELSE [wallet |-> <<>>, when |-> <<>>]

\* SELECT wallet, updated_at ... WHERE tg_id = ?; fetchone(): (None, None) on a miss.
get_wallet(table, tg_id) ==
    IF \E r \in table : r.tg_id = tg_id
    THEN LET row == CHOOSE r \in table : r.tg_id = tg_id
         IN  [wallet |-> <<row.wallet>>, when |-> <<row.updated_at>>]
    ELSE [wallet |-> <<>>, when |-> <<>>]

\* Faulty variant: ORDER BY updated_at ASC.
SelectAllAscending(table) ==
    { rows \in [1..Cardinality(table) -> table] :
        /\ \A r \in table : \E i \in DOMAIN rows : rows[i] = r
        /\ \A i, j \in DOMAIN rows : i < j => ~TextLess(rows[j].updated_at, rows[i].updated_at) }

\* SELECT ... ORDER BY updated_at DESC; fetchall(): the rows, each once, latest
\* first; sqlite leaves the order of rows with equal updated_at open.
SelectAllOrdered(table) ==
    { rows \in [1..Cardinality(table) -> table] :
        /\ \A r \in table : \E i \in DOMAIN rows : rows[i] = r
        /\ \A i, j \in DOMAIN rows : i < j => ~TextLess(rows[i].updated_at, rows[j].updated_at) }

CsvHeader == << "tg_id", "username", "display_name", "wallet", "updated_at" >>

\* csv.writer writes None as the empty field and an int as str(int).
CsvOptional(v) == IF v = <<>> THEN "" ELSE v[1]

CsvRow(r) ==
    << str_int(r.tg_id), CsvOptional(r.username), r.display_name, r.wallet, r.updated_at >>

\* export_csv(path): the contents the file at path may get.
export_csv(table) ==
    { [header |-> CsvHeader, rows |-> [i \in DOMAIN rows |-> CsvRow(rows[i])]] :
        rows \in SelectAllOrdered(table) }

(***************************************************************************)
(* Telegram: users, chats and the updates they send.                       *)
(***************************************************************************)
Users == {7, 42}

\* ADMIN_IDS, from the environment
ADMIN_IDS == {42}

GroupChats == {-100}

\* The users who are members of the group chats.
GroupMembers == {7}

\* A user writes in the private chat (whose id is the user's) or in a group.
ChatsOf(u) == IF u \in GroupMembers THEN {u} \cup GroupChats ELSE {u}

\* update.effective_user: username is optional, full_name is not.
EffectiveUsers ==
    { [id |-> 7, username |-> <<>>, full_name |-> "Ann"],
      [id |-> 42, username |-> <<"bob">>, full_name |-> "Bob"] }

\* The conversation states: none, or the one state of main()'s ConversationHandler.
ConversationStates == {<<>>, <<1>>}

CommandNames == {"start", "whitelist", "cancel", "editwallet", "mywallet", "export"}

Addr1 == Rep("A", MinAddrLen - 1) \o <<"b">>
Addr2 == Rep("z", MaxAddrLen)
Padded == <<" ">> \o Addr2 \o <<"\n">>
BadChar == Rep("A", MinAddrLen - 1) \o <<"0">>
Bang == << "!", "w", "h", "i", "t", "e", "l", "i", "s", "t" >>
BangMixed == << "!", "W", "h", "i", "t", "e", "L", "i", "s", "t" >>
BangPadded == <<" ">> \o Bang

TextInputs == {Addr1, Padded, BadChar, BangMixed, BangPadded}

\* A message: a command (the bot_command entity at its start, by name) or a text.
UpdatesOf(u) ==
    { [user |-> u, chat |-> c, command |-> <<n>>, text |-> <<>>] :
        c \in ChatsOf(u.id), n \in CommandNames }
    \cup
    { [user |-> u, chat |-> c, command |-> <<>>, text |-> t] :
        c \in ChatsOf(u.id), t \in TextInputs }

Updates == UNION { UpdatesOf(u) : u \in EffectiveUsers }

(***************************************************************************)
(* Handlers.  Each gives the outcomes of one call: the value returned      *)
(* (<<>> for None), the replies sent, the I/O calls made, and the table    *)
(* and the export file as the call leaves them.                            *)
(***************************************************************************)
ASKING_ADDRESS == 1

\* ConversationHandler.END
END == 0 - 1

Reply(msg, arg) == [msg |-> msg, arg |-> arg]

Outcome(ret, replies, ops, table, file) ==
    [ret |-> ret, replies |-> replies, ops |-> ops, table |-> table, file |-> file,
     raised |-> FALSE]

\* "if current:" of a wallet read by get_wallet: neither None nor ''
Truthy(current) == current # <<>> /\ current[1] # <<>>

start(update, table, file) ==
    { Outcome(<<>>, <<Reply("greeting", <<>>)>>, <<>>, table, file) }

\* Faulty variant: whitelist_entry without the test of the wallet on record.
whitelist_entry_always_asks(update, table, file) ==
    { Outcome(<<ASKING_ADDRESS>>, <<Reply("send_address", <<>>)>>, <<"get_wallet">>,
              table, file) }

whitelist_entry(update, table, file) ==
    LET current == get_wallet(table, update.user.id).wallet
    IN  IF Truthy(current)
        THEN { Outcome(<<END>>, <<Reply("already_have", current)>>, <<"get_wallet">>, table, file) }
        ELSE { Outcome(<<ASKING_ADDRESS>>, <<Reply("send_address", <<>>)>>, <<"get_wallet">>,
                       table, file) }

\* Faulty variant: the text stored without asking the validator.
receive_address_unchecked(update, table, file, now) ==
    LET text == strip(update.text)
    IN  { Outcome(<<END>>, <<Reply("added", <<>>)>>, <<"set_wallet">>,
                  set_wallet(table, update.user.id, update.user.username,
                             update.user.full_name, text, now),
                  file) }

\* Faulty variant: the text stored as sent, not stripped.
receive_address_untrimmed(update, table, file, now) ==
    LET text == strip(update.text)
    IN  IF ~is_valid_wallet(text)
        THEN { Outcome(<<ASKING_ADDRESS>>, <<Reply("invalid", <<>>)>>, <<>>, table, file) }
        ELSE { Outcome(<<END>>, <<Reply("added", <<>>)>>, <<"set_wallet">>,
                       set_wallet(table, update.user.id, update.user.username,
                                  update.user.full_name, update.text, now),
                       file) }

\* Faulty variant: a rejected text ends the conversation.
receive_address_ends_on_invalid(update, table, file, now) ==
    LET text == strip(update.text)
    IN  IF ~is_valid_wallet(text)
        THEN { Outcome(<<END>>, <<Reply("invalid", <<>>)>>, <<>>, table, file) }
        ELSE { Outcome(<<END>>, <<Reply("added", <<>>)>>, <<"set_wallet">>,
                       set_wallet(table, update.user.id, update.user.username,
                                  update.user.full_name, text, now),
                       file) }

\* Faulty variant: the conversation kept open after the wallet is stored.
receive_address_stays_asking(update, table, file, now) ==
    LET text == strip(update.text)
    IN  IF ~is_valid_wallet(text)
        THEN { Outcome(<<ASKING_ADDRESS>>, <<Reply("invalid", <<>>)>>, <<>>, table, file) }
        ELSE { Outcome(<<ASKING_ADDRESS>>, <<Reply("added", <<>>)>>, <<"set_wallet">>,
                       set_wallet(table, update.user.id, update.user.username,
                                  update.user.full_name, text, now),
                       file) }

receive_address(update, table, file, now) ==
    LET text == strip(update.text)
    IN  IF ~is_valid_wallet(text)
        THEN { Outcome(<<ASKING_ADDRESS>>, <<Reply("invalid", <<>>)>>, <<>>, table, file) }
        ELSE { Outcome(<<END>>, <<Reply("added", <<>>)>>, <<"set_wallet">>,
                       set_wallet(table, update.user.id, update.user.username,
                                  update.user.full_name, text, now),
                       file) }

editwallet(update, table, file) ==
    LET current == get_wallet(table, update.user.id).wallet
    IN  { Outcome(<<ASKING_ADDRESS>>, <<Reply("current", current)>>, <<"get_wallet">>,
                  table, file) }

mywallet(update, table, file) ==
    LET current == get_wallet(table, update.user.id).wallet
    IN  IF Truthy(current)
        THEN { Outcome(<<>>, <<Reply("your_wallet", current)>>, <<"get_wallet">>, table, file) }
        ELSE { Outcome(<<>>, <<Reply("no_wallet", <<>>)>>, <<"get_wallet">>, table, file) }

\* Faulty variant: cancel without its return statement.
cancel_returns_none(update, table, file) ==
    { Outcome(<<>>, <<Reply("cancelled", <<>>)>>, <<>>, table, file) }

cancel(update, table, file) ==
    { Outcome(<<END>>, <<Reply("cancelled", <<>>)>>, <<>>, table, file) }

\* Faulty variant: export_cmd without the ADMIN_IDS test.
export_cmd_unguarded(update, table, file) ==
    { Outcome(<<>>, <<Reply("document", <<>>)>>, <<"export_csv", "open">>, table, <<f>>) :
        f \in export_csv(table) }

\* The document sent is the file just written.
export_cmd(update, table, file) ==
    IF update.user.id \notin ADMIN_IDS
    THEN { Outcome(<<>>, <<Reply("not_authorized", <<>>)>>, <<>>, table, file) }
    ELSE { Outcome(<<>>, <<Reply("document", <<>>)>>, <<"export_csv", "open">>, table, <<f>>) :
             f \in export_csv(table) }

unknown(update, table, file) ==
    LET txt == strip(update.text)
    IN  IF lower(txt) = Bang
        THEN whitelist_entry(update, table, file)
        ELSE { Outcome(<<>>, <<>>, <<>>, table, file) }

(***************************************************************************)
(* Dispatch: the handlers of main(), in the order added; an update goes to *)
(* the first one whose check accepts it.                                   *)
(***************************************************************************)
IsCommand(update, name) == update.command = <<name>>

\* filters.TEXT & ~filters.COMMAND
IsPlainText(update) == update.command = <<>> /\ update.text # <<>>

\* Faulty variant: the pattern without its (?i) flag.
RegexBang_case_sensitive(text) == text = Bang \/ text = Bang \o <<"\n">>

\* filters.Regex(r"(?i)^!whitelist$"): re.search; $ also matches before a final newline.
RegexBang(text) == LET folded == lower(text) IN folded = Bang \/ folded = Bang \o <<"\n">>

\* Faulty variant: the address handler listed among the entry points.
ConversationCheck_text_enters(update, state) ==
    IF IsCommand(update, "whitelist") \/ (IsPlainText(update) /\ RegexBang(update.text))
    THEN "whitelist_entry"
    ELSE IF IsPlainText(update) THEN "receive_address"
    ELSE IF state = <<>> THEN ""
    ELSE IF IsCommand(update, "cancel") THEN "cancel"
    ELSE ""

\* ConversationHandler.check_update in the state `state` (<<>>: no conversation):
\* the entry points first (allow_reentry), then the state's handlers, then the
\* fallbacks; "" when none accepts.
ConversationCheck(update, state) ==
    IF IsCommand(update, "whitelist") \/ (IsPlainText(update) /\ RegexBang(update.text))
    THEN "whitelist_entry"
    ELSE IF state = <<>> THEN ""
    ELSE IF state = <<ASKING_ADDRESS>> /\ IsPlainText(update) THEN "receive_address"
    ELSE IF IsCommand(update, "cancel") THEN "cancel"
    ELSE ""

HandlerFor(update, state) ==
    LET conversation == ConversationCheck(update, state)
    IN
    IF IsCommand(update, "start") THEN "start"
    ELSE IF conversation # "" THEN conversation
    ELSE IF IsCommand(update, "editwallet") THEN "editwallet"
    ELSE IF IsCommand(update, "mywallet") THEN "mywallet"
    ELSE IF IsCommand(update, "export") THEN "export_cmd"
    ELSE IF IsPlainText(update) THEN "unknown"
    ELSE ""

\* The handlers that run inside the ConversationHandler: only their return
\* value moves the conversation.
InConversation(handler) == handler \in {"whitelist_entry", "receive_address", "cancel"}

\* HandlerFor, tabulated.
Dispatch ==
    [update \in Updates, state \in ConversationStates |-> HandlerFor(update, state)]

\* ConversationHandler._update_state: END drops the key, None leaves it, any
\* other value is stored.
update_state(convs, key, ret) ==
    IF ret = <<>> THEN convs
    ELSE IF ret = <<END>> THEN [k \in DOMAIN convs \ {key} |-> convs[k]]
    ELSE [k \in DOMAIN convs \cup {key} |-> IF k = key THEN ret[1] ELSE convs[k]]

\* ConversationHandler._get_key: per chat and per user
KeyOf(update) == <<update.chat, update.user.id>>

StateOf(convs, key) == IF key \in DOMAIN convs THEN <<convs[key]>> ELSE <<>>

\* The callback `handler` called with the update ("": no callback).
Run(handler, update, table, file, now) ==
    CASE handler = "start" -> start(update, table, file)
      [] handler = "whitelist_entry" -> whitelist_entry(update, table, file)
      [] handler = "receive_address" -> receive_address(update, table, file, now)
      [] handler = "cancel" -> cancel(update, table, file)
      [] handler = "editwallet" -> editwallet(update, table, file)
      [] handler = "mywallet" -> mywallet(update, table, file)
      [] handler = "export_cmd" -> export_cmd(update, table, file)
      [] handler = "unknown" -> unknown(update, table, file)
      [] OTHER -> { Outcome(<<>>, <<>>, <<>>, table, file) }

\* Application.process_update of the update, met in the given conversations,
\* table and file: what the user is sent and what is left behind.
Effects(update, convs, table, file, now) ==
    LET key == KeyOf(update)
        handler == HandlerFor(update, StateOf(convs, key))
    IN  { [replies |-> out.replies,
           convs |-> IF InConversation(handler) THEN update_state(convs, key, out.ret)
                     ELSE convs,
           table |-> out.table,
           file |-> out.file] :
          out \in Run(handler, update, table, file, now) }

\* Faulty variant: the exception caught and passed over; the handler goes on
\* as if the call had been made.
storage_error_swallowed(outcomes, table, file) ==
    { IF out.ops = <<>>
      THEN out
      ELSE [out EXCEPT !.table = table, !.file = file, !.raised = TRUE] :
      out \in outcomes }

\* sqlite3 raises at the handler's first call on the database (the file cannot
\* be opened, or written): the call changes nothing and the handler ends
\* there, with nothing sent and nothing returned.
storage_error(outcomes, table, file) ==
    { IF out.ops = <<>>
      THEN out
      ELSE [ret |-> <<>>, replies |-> <<>>, ops |-> <<out.ops[1]>>, table |-> table,
            file |-> file, raised |-> TRUE] :
      out \in outcomes }

(***************************************************************************)
(* State.                                                                  *)
(***************************************************************************)
VARIABLES
    whitelist,      \* the rows of the table whitelist in whitelist.db
    conversations,  \* ConversationHandler's states: (chat, user) -> state
    export_file,    \* whitelist_export.csv: <<>> while absent, else <<contents>>
    clock,          \* the wall clock, in microseconds
    turn,           \* the update just handled, the state it met (its conversation state,
                    \* the conversations, the table, the file, the clock) and what its handler did; <<>> if none
    candidate,      \* the string given to is_valid_wallet
    verdict         \* what is_valid_wallet returned for it; <<>> before the call

vars == <<whitelist, conversations, export_file, clock, turn, candidate, verdict>>

NoConversations == [k \in {} |-> ASKING_ADDRESS]

\* main(): init_db(), a ConversationHandler with no conversation yet.
Init ==
    /\ whitelist = init_db
    /\ conversations = NoConversations
    /\ export_file = <<>>
    /\ clock = StartClock
    /\ turn = <<>>
    /\ candidate = <<>>
    /\ verdict = <<>>

\* Application.process_update: the update goes to `handler`, which runs to its
\* end; a handler of the ConversationHandler then moves the conversation.
Turn(update, handler, outcomes) ==
    LET key == KeyOf(update)
        state == StateOf(conversations, key)
    IN  /\ Dispatch[update, state] = handler
        /\ \E out \in outcomes :
            /\ whitelist' = out.table
            /\ export_file' = out.file
            /\ conversations' =
                  IF InConversation(handler)
                  THEN update_state(conversations, key, out.ret)
                  ELSE conversations
            /\ turn' = << [update |-> update, handler |-> handler, state |-> state,
                           convs |-> conversations, before |-> whitelist,
                           file_before |-> export_file, now |-> clock,
                           ret |-> out.ret, replies |-> out.replies, ops |-> out.ops,
                           raised |-> out.raised] >>
        /\ UNCHANGED <<clock, candidate, verdict>>

\* The updates by what they are: a command of a given name, or a text.
CommandUpdates(name) == { update \in Updates : IsCommand(update, name) }

TextUpdates == { update \in Updates : IsPlainText(update) }

Start ==
    \E update \in CommandUpdates("start") :
        Turn(update, "start", start(update, whitelist, export_file))

WhitelistEntry ==
    \E update \in CommandUpdates("whitelist") \cup TextUpdates :
        Turn(update, "whitelist_entry", whitelist_entry(update, whitelist, export_file))

ReceiveAddress ==
    \E update \in TextUpdates :
        Turn(update, "receive_address", receive_address(update, whitelist, export_file, clock))

Cancel ==
    \E update \in CommandUpdates("cancel") :
        Turn(update, "cancel", cancel(update, whitelist, export_file))

EditWallet ==
    \E update \in CommandUpdates("editwallet") :
        Turn(update, "editwallet", editwallet(update, whitelist, export_file))

MyWallet ==
    \E update \in CommandUpdates("mywallet") :
        Turn(update, "mywallet", mywallet(update, whitelist, export_file))

ExportCmd ==
    \E update \in CommandUpdates("export") :
        Turn(update, "export_cmd", export_cmd(update, whitelist, export_file))

Unknown ==
    \E update \in TextUpdates :
        Turn(update, "unknown", unknown(update, whitelist, export_file))

\* No handler accepts the update: nothing runs.
Unhandled ==
    \E update \in Updates :
        Turn(update, "", { Outcome(<<>>, <<>>, <<>>, whitelist, export_file) })

\* Time passes: utcnow() read later is no earlier.
Tick ==
    /\ clock < StartClock + MaxTicks
    /\ clock' = clock + 1
    /\ turn' = <<>>
    /\ UNCHANGED <<whitelist, conversations, export_file, candidate, verdict>>

\* The process starts again: the table and the file are on disk, the
\* conversations were in memory.
Restart ==
    /\ conversations' = NoConversations
    /\ turn' = <<>>
    /\ UNCHANGED <<whitelist, export_file, clock, candidate, verdict>>

Next ==
    \/ Start
    \/ WhitelistEntry
    \/ ReceiveAddress
    \/ Cancel
    \/ EditWallet
    \/ MyWallet
    \/ ExportCmd
    \/ Unknown
    \/ Unhandled
    \/ Tick
    \/ Restart

Spec == Init /\ [][Next]_vars

(***************************************************************************)
(* The bot with a database that may fail, its turns taken at one instant:  *)
(* a call that fails reads no time and writes none.                        *)
(***************************************************************************)
\* An update whose handler meets the failure.  process_update logs the
\* exception (main() adds no error handler); the ConversationHandler keeps
\* the conversation where it was.
StorageFault ==
    \E update \in Updates :
        LET handler == Dispatch[update, StateOf(conversations, KeyOf(update))]
        IN  Turn(update, handler,
                 { out \in storage_error(Run(handler, update, whitelist, export_file, clock),
                                         whitelist, export_file) : out.raised })

NextFault ==
    \/ Start
    \/ WhitelistEntry
    \/ ReceiveAddress
    \/ Cancel
    \/ EditWallet
    \/ MyWallet
    \/ ExportCmd
    \/ Unknown
    \/ Unhandled
    \/ Restart
    \/ StorageFault

SpecFault == Init /\ [][NextFault]_vars

(***************************************************************************)
(* The store alone: set_wallet called with any arguments, at any time.     *)
(* Here turn holds the call just made and the table it met.                *)
(***************************************************************************)
StoreProfiles ==
    { [username |-> <<>>, full_name |-> "Ann"], [username |-> <<"ann">>, full_name |-> "Ann Lee"] }

StoreWallets == {Addr1, Addr2}

SetWallet ==
    \E tg_id \in Users, profile \in StoreProfiles, wallet \in StoreWallets :
        /\ whitelist' = set_wallet(whitelist, tg_id, profile.username, profile.full_name,
                                   wallet, clock)
        /\ turn' = << [tg_id |-> tg_id, username |-> profile.username,
                       display_name |-> profile.full_name, wallet |-> wallet,
                       now |-> clock, before |-> whitelist] >>
        /\ UNCHANGED <<conversations, export_file, clock, candidate, verdict>>

NextStore == SetWallet \/ Tick

SpecStore == Init /\ [][NextStore]_vars

(***************************************************************************)
(* The validator alone: is_valid_wallet applied to a candidate string.     *)
(***************************************************************************)
MaxBody == MaxAddrLen + ExtraLen

\* The characters a candidate is filled with, and the ones put at one place of it.
FillChar == "A"
OddChars == {"0", "O", "I", "l", " ", "9", "Z", "a", "z", "-"}

\* n characters, all FillChar but for x at position at (none for at = 0)
Body(n, at, x) == [i \in 1..n |-> IF i = at THEN x ELSE FillChar]

Bodies ==
    UNION { {Body(n, 0, FillChar)} \cup
            { Body(n, at, x) : at \in 1..n, x \in OddChars } :
            n \in 0..MaxBody }

PadChars == {" ", "\n"}

Pads == { Rep(w, k) : w \in PadChars, k \in 0..MaxPad }

Candidates == { l \o b \o r : l \in Pads, b \in Bodies, r \in Pads }

InitValid ==
    /\ whitelist = init_db
    /\ conversations = NoConversations
    /\ export_file = <<>>
    /\ clock = StartClock
    /\ turn = <<>>
    /\ candidate \in Candidates
    /\ verdict = <<>>

Validate ==
    /\ verdict = <<>>
    /\ verdict' = <<is_valid_wallet(candidate)>>
    /\ UNCHANGED <<whitelist, conversations, export_file, clock, turn, candidate>>

NextValid == Validate

SpecValid == InitValid /\ [][NextValid]_vars

(***************************************************************************)
(* Properties.                                                             *)
(***************************************************************************)
\* The turn just taken (where turn # <<>>).
T == turn[1]

RowsOf(table, tg_id) == { r \in table : r.tg_id = tg_id }

\* The turn just taken handled the command `name`.
JustCommand(name) == turn # <<>> /\ IsCommand(T.update, name)

\* The conversation, now, of the chat and user of the turn just taken.
StateNow == StateOf(conversations, KeyOf(T.update))

\* C1 (as claimed): for a user who has a stored record and whose conversation
\* is idle, /editwallet moves the conversation to ASKING_ADDRESS (so that the
\* text that follows is taken as the new address and replaces the stored one).
C1_EditEntersAsking ==
    (/\ JustCommand("editwallet")
     /\ T.state = <<>>
     /\ RowsOf(T.before, T.update.user.id) # {})
        => StateNow = <<ASKING_ADDRESS>>

\* C2: whatever the users sent, the table holds at most one row per tg_id.
C2_OneRowPerUser == \A u \in Users : Cardinality(RowsOf(whitelist, u)) <= 1

\* C2 witness: a user who already had a row has just written an address
\* again, and both users have a row.
C2_Witness ==
    /\ turn # <<>>
    /\ T.handler = "receive_address"
    /\ T.ops = <<"set_wallet">>
    /\ RowsOf(T.before, T.update.user.id) # {}
    /\ \A u \in Users : RowsOf(whitelist, u) # {}

\* C3: every wallet in the table is a string is_valid_wallet accepts.
C3_StoredAreValid == \A r \in whitelist : is_valid_wallet(r.wallet)

\* C3 witness: a text the validator rejects has just been submitted in a
\* conversation that asked for an address, by a user with a stored row.
C3_Witness ==
    /\ turn # <<>>
    /\ T.handler = "receive_address"
    /\ ~is_valid_wallet(T.update.text)
    /\ RowsOf(whitelist, T.update.user.id) # {}

\* C4: /cancel in a conversation that is ASKING_ADDRESS ends the conversation
\* and leaves the table as it was.
C4_CancelLeavesStore ==
    (JustCommand("cancel") /\ T.state = <<ASKING_ADDRESS>>)
        => /\ StateNow = <<>>
           /\ whitelist = T.before
           /\ T.replies = <<Reply("cancelled", <<>>)>>

\* C4 witness: such a /cancel, with rows in the table.
C4_Witness ==
    /\ JustCommand("cancel")
    /\ T.state = <<ASKING_ADDRESS>>
    /\ whitelist # {}

\* C5: /export from a user outside ADMIN_IDS is answered "Not authorized.",
\* makes no I/O call, and leaves the file, the table and the conversations
\* as they were.
C5_ExportDenied ==
    (JustCommand("export") /\ T.update.user.id \notin ADMIN_IDS)
        => /\ T.replies = <<Reply("not_authorized", <<>>)>>
           /\ T.ops = <<>>
           /\ export_file = T.file_before
           /\ whitelist = T.before
           /\ conversations = T.convs

\* C5 witness: such an /export while an older export file lacks a row of the table.
C5_Witness ==
    /\ JustCommand("export")
    /\ T.update.user.id \notin ADMIN_IDS
    /\ export_file # <<>>
    /\ Len(export_file[1].rows) < Cardinality(whitelist)

\* The instant at which the timestamp ts was written.
WrittenAt(ts) == CHOOSE t \in StartClock..(StartClock + MaxTicks) : isoformat(t) = ts

RECURSIVE ParseInt(_)
\* int(s) of a string of digits
ParseInt(s) ==
    IF s = <<>> THEN 0
    ELSE 10 * ParseInt(SubSeq(s, 1, Len(s) - 1))
            + ((CHOOSE d \in 1..10 : Digits[d] = s[Len(s)]) - 1)

\* The csv row `line` carries the values of the table row r (None as the empty field).
SameValues(line, r) ==
    /\ Len(line) = 5
    /\ ParseInt(line[1]) = r.tg_id
    /\ line[2] = (IF r.username = <<>> THEN "" ELSE r.username[1])
    /\ line[3] = r.display_name
    /\ line[4] = r.wallet
    /\ line[5] = r.updated_at

\* C6: /export from an administrator writes the header and then one line per
\* row of the table, each row once with its values, the later written first,
\* and leaves the table as it was.
C6_ExportSnapshot ==
    (JustCommand("export") /\ T.update.user.id \in ADMIN_IDS)
        => /\ export_file # <<>>
           /\ LET f == export_file[1]
              IN  /\ f.header = <<"tg_id", "username", "display_name", "wallet", "updated_at">>
                  /\ Len(f.rows) = Cardinality(whitelist)
                  /\ \A r \in whitelist :
                        Cardinality({ i \in DOMAIN f.rows : SameValues(f.rows[i], r) }) = 1
                  /\ \A i, j \in DOMAIN f.rows :
                        i < j => WrittenAt(f.rows[i][5]) >= WrittenAt(f.rows[j][5])
           /\ whitelist = T.before
           /\ T.replies = <<Reply("document", <<>>)>>

\* C6 witness: an administrator's /export of two rows written at different
\* instants, over an older file.
C6_Witness ==
    /\ JustCommand("export")
    /\ T.update.user.id \in ADMIN_IDS
    /\ T.file_before # <<>>
    /\ T.file_before # export_file
    /\ Cardinality(whitelist) = 2
    /\ \E r1, r2 \in whitelist : r1.updated_at # r2.updated_at

\* C9: /mywallet, in any conversation state, leaves the conversations and the
\* table as they were, and answers with the user's stored wallet, or that
\* there is none on record.
C9_QueryReadsOnly ==
    JustCommand("mywallet")
        => /\ conversations = T.convs
           /\ whitelist = T.before
           /\ LET mine == RowsOf(T.before, T.update.user.id)
              IN  IF mine # {}
                  THEN \E r \in mine : T.replies = <<Reply("your_wallet", <<r.wallet>>)>>
                  ELSE T.replies = <<Reply("no_wallet", <<>>)>>

\* C9 witness: /mywallet in a conversation that is ASKING_ADDRESS, from a user
\* who has no row while another user has one.
C9_Witness ==
    /\ JustCommand("mywallet")
    /\ T.state = <<ASKING_ADDRESS>>
    /\ RowsOf(whitelist, T.update.user.id) = {}
    /\ whitelist # {}

\* The call of set_wallet just made (in SpecStore) found a row of its tg_id.
Rewrote(b) == turn # <<>> /\ b \in T.before /\ b.tg_id = T.tg_id

C8_UpsertIdempotent ==
    \A b \in (IF turn # <<>> THEN T.before ELSE {}) :
        (Rewrote(b) /\ b.wallet = T.wallet)
            => /\ Cardinality(RowsOf(whitelist, T.tg_id)) = 1
               /\ \A a \in RowsOf(whitelist, T.tg_id) :
                    /\ a.wallet = T.wallet
                    /\ a.updated_at = isoformat(T.now)

\* C8 witness: such a second call, made at a later instant than the first.
C8_Witness ==
    \E b \in (IF turn # <<>> THEN T.before ELSE {}) :
        /\ Rewrote(b)
        /\ b.wallet = T.wallet
        /\ WrittenAt(b.updated_at) < T.now

\* The base-58 alphabet: the digits but 0, the capitals but I and O, the
\* small letters but l.
Base58Alphabet ==
    { "1", "2", "3", "4", "5", "6", "7", "8", "9",
      "A", "B", "C", "D", "E", "F", "G", "H", "J", "K", "L", "M", "N", "P", "Q", "R",
      "S", "T", "U", "V", "W", "X", "Y", "Z",
      "a", "b", "c", "d", "e", "f", "g", "h", "i", "j", "k", "m", "n", "o", "p", "q",
      "r", "s", "t", "u", "v", "w", "x", "y", "z" }

HasExcludedChar(s) == \E i \in 1..Len(s) : s[i] \in {"0", "O", "I", "l"}

\* C10 (as claimed): is_valid_wallet is true of every string of 32 to 44
\* characters of the base-58 alphabet, and false of every string that holds
\* 0, O, I or l or whose length is below 32 or above 44.
C10_AsClaimed ==
    verdict # <<>> =>
        /\ (/\ Len(candidate) >= 32
            /\ Len(candidate) <= 44
            /\ \A i \in 1..Len(candidate) : candidate[i] \in Base58Alphabet)
              => verdict = <<TRUE>>
        /\ (HasExcludedChar(candidate) \/ Len(candidate) < 32 \/ Len(candidate) > 44)
              => verdict = <<FALSE>>

\* C10 (amended): ... or whose length, once the whitespace at its two ends is
\* taken off, is below 32 or above 44.
C10_TrimmedLength ==
    verdict # <<>> =>
        /\ (/\ Len(candidate) >= 32
            /\ Len(candidate) <= 44
            /\ \A i \in 1..Len(candidate) : candidate[i] \in Base58Alphabet)
              => verdict = <<TRUE>>
        /\ (\/ HasExcludedChar(candidate)
            \/ Len(strip(candidate)) < 32
            \/ Len(strip(candidate)) > 44)
              => verdict = <<FALSE>>

\* C10 witness: a string longer than 44 characters that is accepted.
C10_Witness == verdict = <<TRUE>> /\ Len(candidate) > 44

(***************************************************************************)
(* Submissions, triggers and failures.                                     *)
(***************************************************************************)
\* The turn t made the upsert.
Wrote(t) == ~t.raised /\ \E i \in DOMAIN t.ops : t.ops[i] = "set_wallet"

\* A text message that is not the register trigger.
IsFreeText(update) == IsPlainText(update) /\ ~RegexBang(update.text)

Sent(t, msg) == \E i \in DOMAIN t.replies : t.replies[i].msg = msg

\* The turn is a valid address sent to a conversation asking for it, and the
\* write of set_wallet failed.
FailedSubmission ==
    /\ turn # <<>>
    /\ IsFreeText(T.update) /\ is_valid_wallet(T.update.text)
    /\ T.state = <<ASKING_ADDRESS>>
    /\ T.raised

\* C12: when the write of a valid address sent in ASKING_ADDRESS fails, the
\* conversation is still in ASKING_ADDRESS, no "Added" reply is sent and the
\* table is the one the turn met.
C12_FailedWriteKeepsAsking ==
    FailedSubmission
    => /\ StateNow = <<ASKING_ADDRESS>>
       /\ ~Sent(T, "added")
       /\ whitelist = T.before

\* C12 witness: the failed write was to replace an address stored before.
C12_Witness ==
    /\ FailedSubmission
    /\ \E r \in whitelist : r.tg_id = T.update.user.id /\ r.wallet # strip(T.update.text)

\* C13: a turn whose call on the database fails still sends the user a reply
\* (one telling that an error occurred).
C13_FailureIsReported ==
    (turn # <<>> /\ T.raised) => T.replies # <<>>

\* The register trigger in either form: the command /whitelist, or a text
\* that is the token !whitelist in any letter case.
IsRegisterTrigger(update) ==
    \/ IsCommand(update, "whitelist")
    \/ IsPlainText(update) /\ lower(update.text) = Bang

\* C14: the two forms of the register trigger are one event: whatever form
\* the turn just handled had, each form sent by the same user in the same chat
\* to the conversations and table the turn met gives exactly the replies,
\* conversations and table the turn gave.
C14_TriggerFormsAgree ==
    (turn # <<>> /\ IsRegisterTrigger(T.update))
    => \A other \in Updates :
          (IsRegisterTrigger(other) /\ KeyOf(other) = KeyOf(T.update))
          => Effects(other, T.convs, T.before, T.file_before, T.now)
             = { [replies |-> T.replies, convs |-> conversations,
                  table |-> whitelist, file |-> export_file] }

\* C14 witness: the text form, in mixed case, opened a conversation.
C14_Witness ==
    /\ turn # <<>>
    /\ IsPlainText(T.update) /\ IsRegisterTrigger(T.update) /\ T.update.text # Bang
    /\ T.state = <<>> /\ StateNow = <<ASKING_ADDRESS>>
    /\ Sent(T, "send_address")

\* C15: the register trigger met with no conversation leaves the table as it
\* was; with a row of the user on record it leaves no conversation and
\* replies with the stored address, without one it opens ASKING_ADDRESS and
\* asks for the address.
C15_TriggerWhenIdle ==
    (turn # <<>> /\ IsRegisterTrigger(T.update) /\ T.state = <<>>)
    => /\ whitelist = T.before
       /\ IF RowsOf(T.before, T.update.user.id) # {}
          THEN /\ StateNow = <<>>
               /\ \E r \in T.before :
                     /\ r.tg_id = T.update.user.id
                     /\ T.replies = <<Reply("already_have", <<r.wallet>>)>>
          ELSE /\ StateNow = <<ASKING_ADDRESS>>
               /\ T.replies = <<Reply("send_address", <<>>)>>

\* C15 witness: the trigger of a user already on record, met with no conversation.
C15_Witness ==
    /\ turn # <<>>
    /\ IsRegisterTrigger(T.update) /\ T.state = <<>>
    /\ RowsOf(T.before, T.update.user.id) # {}
    /\ StateNow = <<>>

\* C16: a valid address sent to a conversation in ASKING_ADDRESS leaves
\* exactly one row of the sender, holding the text stripped and otherwise as
\* sent, the sender's username and full name and the time of the turn; the
\* rows of the others stay and the conversation is over.
C16_ValidSubmissionStored ==
    (turn # <<>> /\ IsFreeText(T.update) /\ T.state = <<ASKING_ADDRESS>>
       /\ is_valid_wallet(T.update.text))
    => LET user == T.update.user
       IN  /\ RowsOf(whitelist, user.id)
                = { Row(user.id, user.username, user.full_name, strip(T.update.text),
                        isoformat(T.now)) }
           /\ whitelist \ RowsOf(whitelist, user.id) = T.before \ RowsOf(T.before, user.id)
           /\ StateNow = <<>>
           /\ T.replies = <<Reply("added", <<>>)>>

\* C16 witness: an address sent with whitespace around it replaced another one.
C16_Witness ==
    /\ turn # <<>>
    /\ IsFreeText(T.update) /\ T.state = <<ASKING_ADDRESS>>
    /\ is_valid_wallet(T.update.text) /\ strip(T.update.text) # T.update.text
    /\ \E r \in T.before : r.tg_id = T.update.user.id /\ r.wallet # strip(T.update.text)
    /\ \E r \in whitelist : r.tg_id = T.update.user.id /\ r.wallet = strip(T.update.text)

\* The turn is a text the validator rejects, sent to a conversation in
\* ASKING_ADDRESS.
RejectedText ==
    /\ turn # <<>>
    /\ IsPlainText(T.update) /\ ~is_valid_wallet(T.update.text)
    /\ T.state = <<ASKING_ADDRESS>>

\* C17 as claimed: every text the validator rejects, sent in ASKING_ADDRESS,
\* leaves the conversation in ASKING_ADDRESS and the table as it was.
C17_AsClaimed ==
    RejectedText => (StateNow = <<ASKING_ADDRESS>> /\ whitelist = T.before)

\* C17: a text the validator rejects, other than the register trigger, sent
\* in ASKING_ADDRESS, leaves the conversation in ASKING_ADDRESS and the table
\* as it was, and is answered with the validation error; this holds of every
\* such turn, so of any number of them in a row.
C17_RejectedKeepsAsking ==
    (RejectedText /\ IsFreeText(T.update))
    => /\ StateNow = <<ASKING_ADDRESS>>
       /\ whitelist = T.before
       /\ T.replies = <<Reply("invalid", <<>>)>>

\* C17 witness: a rejected text in a conversation that had been left in
\* ASKING_ADDRESS, the table holding a row already.
C17_Witness ==
    /\ RejectedText /\ IsFreeText(T.update)
    /\ T.handler = "receive_address"
    /\ whitelist # {}

\* C18: a text other than the register trigger, met with no conversation, is
\* not taken for an address: the table and every conversation stay as they
\* were, also when the text is a valid address.
C18_IdleTextIgnored ==
    (turn # <<>> /\ IsFreeText(T.update) /\ T.state = <<>>)
    => /\ whitelist = T.before
       /\ conversations = T.convs
       /\ ~Wrote(T)

\* C18 witness: a valid address sent with no conversation open by a user
\* without a row, who still has none.
C18_Witness ==
    /\ turn # <<>>
    /\ IsFreeText(T.update) /\ T.state = <<>>
    /\ is_valid_wallet(T.update.text)
    /\ RowsOf(whitelist, T.update.user.id) = {}

\* The conversation keys of the user b, before or after the turn.
KeysOf(b) == { key \in DOMAIN conversations \cup DOMAIN T.convs : key[2] = b }

\* C19: a turn of one user changes neither the row nor any conversation of
\* another user.
C19_OtherUsersUntouched ==
    turn # <<>>
    => \A b \in Users \ {T.update.user.id} :
          /\ RowsOf(whitelist, b) = RowsOf(T.before, b)
          /\ \A key \in KeysOf(b) : StateOf(conversations, key) = StateOf(T.convs, key)

\* C19 witness: one user's address was stored while another user, with a row,
\* was being asked for an address.
C19_Witness ==
    /\ turn # <<>>
    /\ Wrote(T)
    /\ RowsOf(T.before, T.update.user.id) # RowsOf(whitelist, T.update.user.id)
    /\ \E b \in Users \ {T.update.user.id} :
          /\ RowsOf(whitelist, b) # {}
          /\ \E key \in KeysOf(b) : StateOf(conversations, key) = <<ASKING_ADDRESS>>

\* C20: set_wallet calls on one user, in any order and at any pace, are
\* whole: after each call the user's row is exactly the wallet, username,
\* display name and time of that call, and the other rows are as they were.
C20_LastUpsertWhole ==
    turn # <<>>
    => /\ RowsOf(whitelist, T.tg_id)
            = { Row(T.tg_id, T.username, T.display_name, T.wallet, isoformat(T.now)) }
       /\ whitelist \ RowsOf(whitelist, T.tg_id) = T.before \ RowsOf(T.before, T.tg_id)

\* C20 witness: a call that changed the wallet, the username and the display
\* name of a row at once.
C20_Witness ==
    /\ turn # <<>>
    /\ \E r \in T.before :
          /\ r.tg_id = T.tg_id
          /\ r.wallet # T.wallet
          /\ r.username # T.username
          /\ r.display_name # T.display_name
          /\ r.updated_at # isoformat(T.now)

====
